---- MODULE Spec2Model ----
(***************************************************************************)
(* A model of the flashbot relay client (flashbot.go): the three bundle    *)
(* operations SendBundle, CallBundle and GetBundleStats, the package level *)
(* request templates they write to, the request signer, the HTTP round     *)
(* trip of req and the response classification of parseResp.               *)
(*                                                                         *)
(* Every operation is a sequence of steps of one goroutine; a step is one  *)
(* access to memory shared between goroutines (a request template, the     *)
(* key fields of the client) together with the goroutine-local code that   *)
(* follows it.  The variable event holds what the last step made visible   *)
(* outside the client: the HTTP POST it issued, or the value it returned   *)
(* to its caller.                                                          *)
(***************************************************************************)
EXTENDS Integers, Sequences, FiniteSets, TLC

VARIABLES
    netID,       \* Flashbot.netID
    url,         \* Flashbot.url
    prvKey,      \* Flashbot.prvKey
    publicAddr,  \* Flashbot.publicAddr
    templates,   \* Params[0] of RequestSend, RequestCall, RequestBundleStats
    pc,          \* position of each goroutine
    method,      \* the operation a goroutine is executing
    args,        \* the arguments of that operation
    payload,     \* local payload of req (the marshalled request)
    signature,   \* local signature of signPayload
    posts,       \* number of HTTP POSTs the current call has issued
    event,       \* the last externally visible event
    calls        \* number of operations started so far

vars == <<netID, url, prvKey, publicAddr, templates, pc, method, args,
          payload, signature, posts, event, calls>>

----------------------------------------------------------------------------
(* Bounds and input sets *)

\* Longest transaction-result sequence a relay reply carries.
MaxResults == 2

\* Number of operations the goroutines start in one behaviour.
MaxCalls == 2

Threads == {"g1", "g2"}

\* A uint64 is kept as two limbs <<hi, lo>>, value hi * 16^6 + lo.
U64(hi, lo) == <<hi, lo>>

TxLists == {<<>>, <<"0x02f8aa", "0x01f8bb">>}
BlockNumbers == {U64(0, 0), U64(0, 100)}
BundleHashes == {"", "0xabc"}
NetIDs == {1, 5, 3}
CustomURL == "https://relay.example.org"
URLs == {"", CustomURL}
NoKey == "nil"
NoAddr == "nil"
Keys == {"k1", "k2"}

----------------------------------------------------------------------------
(* Data model *)

SendMethod == "eth_sendBundle"
CallMethod == "eth_callBundle"
StatsMethod == "flashbots_getBundleStats"
Methods == {SendMethod, CallMethod, StatsMethod}

\* The zero value of Params.
Params == [Txs |-> <<>>, BlockNumber |-> "", StateBlockNumber |-> "",
           BundleHash |-> ""]

\* Params[0] of the three package-level templates.
RequestSend == Params
RequestCall == [Params EXCEPT !.StateBlockNumber = "latest"]
RequestBundleStats == Params

\* The element Params[0] that a copy of the template of method m refers to:
\* copying a Request copies the slice header, not the backing array.
Template(m) == templates[m]

----------------------------------------------------------------------------
(* hexutil.EncodeUint64 *)

HexDigits == <<"0", "1", "2", "3", "4", "5", "6", "7",
               "8", "9", "a", "b", "c", "d", "e", "f">>

RECURSIVE FormatHex(_)
FormatHex(n) ==
    IF n < 16 THEN HexDigits[n + 1]
    ELSE FormatHex(n \div 16) \o HexDigits[(n % 16) + 1]

RECURSIVE FormatHexFixed(_, _)
FormatHexFixed(n, width) ==
    IF width = 0 THEN ""
    ELSE FormatHexFixed(n \div 16, width - 1) \o HexDigits[(n % 16) + 1]

EncodeUint64(i) ==
    "0x" \o (IF i[1] = 0 THEN FormatHex(i[2])
             ELSE FormatHex(i[1]) \o FormatHexFixed(i[2], 6))

\* blockDummy := uint64(100000000000000)
blockDummy == U64(5960464, 8011776)

----------------------------------------------------------------------------
(* json.Marshal of a Request: every field is omitempty *)

ParamsKeys == {"txs", "blockNumber", "stateBlockNumber", "bundleHash"}

ParamsField(p, k) ==
    CASE k = "txs" -> p.Txs
      [] k = "blockNumber" -> p.BlockNumber
      [] k = "stateBlockNumber" -> p.StateBlockNumber
      [] k = "bundleHash" -> p.BundleHash

IsEmptyValue(p, k) ==
    IF k = "txs" THEN Len(p.Txs) = 0 ELSE ParamsField(p, k) = ""

MarshalParams(p) ==
    [k \in {f \in ParamsKeys : ~IsEmptyValue(p, f)} |-> ParamsField(p, k)]

Marshal(m, p) ==
    [jsonrpc |-> "2.0", id |-> 1, method |-> m, params |-> <<MarshalParams(p)>>]

NoPayload == [jsonrpc |-> "", id |-> 0, method |-> "", params |-> <<>>]

----------------------------------------------------------------------------
(* Keys, addresses and signatures *)

\* crypto.PubkeyToAddress of the public key of k.
PubkeyToAddress(k) == <<"address", k>>

\* accounts.TextHash(hexutil.Encode(crypto.Keccak256(payload))): the digest
\* is a function of the payload bytes and of nothing else.
TextHash(p) == <<"textHash", <<"hex", <<"keccak256", p>>>>>>

\* crypto.Sign(digest, key)
Sign(digest, key) == [digest |-> digest, signer |-> key]

NoSignature == [digest |-> <<>>, signer |-> NoKey]

\* A variant of the guard that lets every client sign.
KeyNotSetNever(key, addr) == FALSE

\* signPayload's guard: self.prvKey == nil || self.publicAddr == nil
KeyNotSet(key, addr) == key = NoKey \/ addr = NoAddr

\* The value of the X-Flashbots-Signature header, as the pieces that are
\* concatenated: publicAddr.Hex() + ":" + hexutil.Encode(signature).
HeaderValue(addr, sig) == <<addr, ":", sig>>

----------------------------------------------------------------------------
(* Relay URL *)

\* A variant that falls back to the mainnet relay for an unknown network.
relayURLDefaultMainnet(id) ==
    CASE id = 5 -> [url |-> "https://relay-goerli.flashbots.net", err |-> FALSE]
      [] OTHER -> [url |-> "https://relay.flashbots.net", err |-> FALSE]

relayURLDefault(id) ==
    CASE id = 1 -> [url |-> "https://relay.flashbots.net", err |-> FALSE]
      [] id = 5 -> [url |-> "https://relay-goerli.flashbots.net", err |-> FALSE]
      [] OTHER -> [url |-> "", err |-> TRUE]

\* req: the url of the request, or the error of relayURLDefault.
ResolveURL(u, id) ==
    IF u = "" THEN relayURLDefault(id) ELSE [url |-> u, err |-> FALSE]

----------------------------------------------------------------------------
(* Replies of the relay *)

\* The fields of a TxResult that parseResp reads.
TxResult == [Error : {"", "insufficient funds"}, Revert : {"", "0x08c379a0"}]

RECURSIVE SeqsUpTo(_, _)
SeqsUpTo(S, n) ==
    IF n = 0 THEN {<<>>}
    ELSE LET shorter == SeqsUpTo(S, n - 1)
         IN  shorter \cup {Append(s, x) : s \in {q \in shorter : Len(q) = n - 1}, x \in S}

\* The Error object of a reply.
ErrorOf(code) == [Code |-> code, Message |-> IF code = 0 THEN "" ELSE "relay error"]

\* A reply body: text that is not JSON, or a JSON-RPC object with an error
\* object and a result object.
JSONBody(code, hash, results) ==
    [valid |-> TRUE, text |-> "json", error |-> ErrorOf(code),
     result |-> [BundleHash |-> hash, Results |-> results]]

TextBody(text) ==
    [valid |-> FALSE, text |-> text, error |-> ErrorOf(0),
     result |-> [BundleHash |-> "", Results |-> <<>>]]

JSONBodies ==
    {JSONBody(code, IF code = 0 THEN "0xabc" ELSE "", results) :
        code \in {0, -32000}, results \in SeqsUpTo(TxResult, MaxResults)}

\* What http.Client.Do and the reads of the body yield.
Reply(netErr, status, readErr, closeErr, body) ==
    [netErr |-> netErr, status |-> status, readErr |-> readErr,
     closeErr |-> closeErr, body |-> body]

NoStatus == 0
NoReply == Reply(FALSE, NoStatus, FALSE, FALSE, TextBody(""))

\* The replies in which the transport fails or the body is not JSON.
BadReplies ==
    {Reply(TRUE, NoStatus, FALSE, FALSE, TextBody(""))}
    \cup {Reply(FALSE, st, TRUE, FALSE, TextBody("")) : st \in {200, 500}}
    \cup {Reply(FALSE, 500, FALSE, FALSE, TextBody("relay overloaded"))}
    \cup {Reply(FALSE, 200, FALSE, ce, TextBody("<html>")) : ce \in BOOLEAN}

\* Every reply: the bad ones and every JSON body up to MaxResults results.
Replies == BadReplies \cup {Reply(FALSE, 200, FALSE, FALSE, b) : b \in JSONBodies}

\* One reply of each kind: the bad ones, a relay error, an empty result, a
\* result whose first transaction failed and the result of two transactions.
ReplyKinds ==
    BadReplies \cup
    {Reply(FALSE, 200, FALSE, FALSE, b) : b \in
        {JSONBody(-32000, "", <<>>),
         JSONBody(0, "0xabc", <<>>),
         JSONBody(0, "0xabc", <<[Error |-> "insufficient funds", Revert |-> ""]>>),
         JSONBody(0, "0xabc", <<[Error |-> "", Revert |-> ""],
                                [Error |-> "", Revert |-> ""]>>)}}

----------------------------------------------------------------------------
(* Decoding and classification of a reply *)

\* json.Unmarshal into a Response: the embedded Error and Result carry the
\* tags "error" and "result" and are read from the keys of those names.
UnmarshalResponse(body) ==
    [err |-> ~body.valid, rr |-> [Error |-> body.error, Result |-> body.result]]

\* The zero value of BundleStats.
BundleStats == [IsSimulated |-> FALSE, IsHighPriority |-> FALSE]

\* json.Unmarshal into a ResultBundleStats: the embedded Error has no tag,
\* so Code and Message are read from top-level keys "code" and "message",
\* which a JSON-RPC reply does not have; "result" is read into BundleStats,
\* which has none of the keys of a bundle result.
UnmarshalBundleStats(body) ==
    [err |-> ~body.valid, rr |-> [Error |-> ErrorOf(0), Result |-> BundleStats]]

NoResponse == [Error |-> ErrorOf(0), Result |-> [BundleHash |-> "", Results |-> <<>>]]

\* An outcome of req or of an operation: err is the chain of error messages
\* (empty for nil), status and body are what the error text carries, closed
\* is the state of the response body, rr the decoded value returned.
Outcome(err, status, body, closed, ok, rr) ==
    [err |-> err, status |-> status, body |-> body, closed |-> closed,
     ok |-> ok, rr |-> rr]

Failure(err, status, body, closed) ==
    Outcome(err, status, body, closed, FALSE, NoResponse)

Wrap(o, msg) == [o EXCEPT !.err = <<msg>> \o @]

\* ioutil.ReadAll of a body that ReadAll has already read to its end.
ReadAllAgain == [data |-> <<>>, err |-> FALSE]

\* req from mevHTTPClient.Do to its return.
reqAfterDo(reply) ==
    IF reply.netErr
    THEN Failure(<<"flashbot request">>, NoStatus, <<>>, "none")
    ELSE IF reply.readErr
    THEN Failure(<<"reading flashbot reply">>, NoStatus, <<>>, "open")
    ELSE IF reply.status \div 100 /= 2
    THEN LET rbody == ReadAllAgain
         IN  IF rbody.err
             THEN Failure(<<"bad response status">>, reply.status, <<>>, "open")
             ELSE Failure(<<"bad response resp status">>, reply.status,
                          rbody.data \o <<reply.body.text>>, "open")
    ELSE IF reply.closeErr
    THEN Failure(<<"closing flashboat reply body">>, NoStatus, <<>>, "closed")
    ELSE Outcome(<<>>, NoStatus, <<reply.body>>, "closed", TRUE, NoResponse)

\* A variant that looks at every transaction result.
parseRespFailsAny(rr) ==
    \/ rr.Error.Code /= 0
    \/ \E i \in 1..Len(rr.Result.Results) : rr.Result.Results[i].Error /= ""

\* A variant that looks at the error code only.
parseRespFailsCode(rr) == rr.Error.Code /= 0

\* The condition under which parseResp returns an error.
parseRespFails(rr) ==
    \/ rr.Error.Code /= 0
    \/ (Len(rr.Result.Results) > 0 /\ rr.Result.Results[1].Error /= "")

\* parseResp, given the outcome o of a req that returned no error.
parseResp(o) ==
    LET d == UnmarshalResponse(o.body[1])
    IN  IF d.err
        THEN Failure(<<"unmarshal flashbot call response">>, NoStatus, <<>>, o.closed)
        ELSE IF parseRespFails(d.rr)
        THEN Failure(<<"flashbot request returned an error">>, NoStatus, <<>>, o.closed)
        ELSE Outcome(<<>>, NoStatus, <<>>, o.closed, TRUE, d.rr)

\* GetBundleStats after req returned no error.
parseBundleStats(o) ==
    LET d == UnmarshalBundleStats(o.body[1])
    IN  IF d.err
        THEN Failure(<<"unmarshal flashbot bundle stats response">>, NoStatus, <<>>, o.closed)
        ELSE IF d.rr.Error.Code /= 0
        THEN Failure(<<"flashbot request returned an error">>, NoStatus, <<>>, o.closed)
        ELSE Outcome(<<>>, NoStatus, <<>>, o.closed, TRUE, d.rr)

\* The message each operation wraps an error of req in.
WrapMessage(m) ==
    IF m = SendMethod THEN "flashbot send request" ELSE "flashbot call request"

\* A variant of reqNext that sends the request again after a failure.
reqNextRetry(o) == IF o.err /= <<>> THEN "post" ELSE "idle"

\* Where a goroutine goes after Do: every path of req from Do on returns,
\* and so does the operation that called req.
reqNext(o) == "idle"

\* What operation m returns when req returns outcome o.
Finish(m, o) ==
    IF o.err /= <<>> THEN Wrap(o, WrapMessage(m))
    ELSE IF m = StatsMethod THEN parseBundleStats(o)
    ELSE parseResp(o)

----------------------------------------------------------------------------
(* Events *)

NoEvent == [kind |-> "none"]

\* The HTTP POST that goroutine t issues for its call of m with arguments a.
PostEvent(t, m, a, u, body, header) ==
    [kind |-> "post", thread |-> t, method |-> m, args |-> a, url |-> u,
     body |-> body, header |-> header]

\* The return of operation m of goroutine t with outcome o, after n POSTs
\* and the reply of the relay (NoReply if there was none).
ReturnEvent(t, m, n, reply, o) ==
    [kind |-> "return", thread |-> t, method |-> m, posts |-> n,
     reply |-> reply, outcome |-> o]

NoArgs == [txsHex |-> <<>>, blockNumber |-> U64(0, 0), bundleHash |-> "",
           prvKey |-> NoKey]

----------------------------------------------------------------------------
(* Initial state: the package variables and a client made by New *)

Init ==
    /\ netID \in NetIDs
    /\ url \in URLs
    /\ \E k \in {NoKey, "k1"} :
          /\ prvKey = k
          /\ publicAddr = IF k = NoKey THEN NoAddr ELSE PubkeyToAddress(k)
    /\ templates = [m \in Methods |->
                      CASE m = SendMethod -> RequestSend
                        [] m = CallMethod -> RequestCall
                        [] m = StatsMethod -> RequestBundleStats]
    /\ pc = [t \in Threads |-> "idle"]
    /\ method = [t \in Threads |-> ""]
    /\ args = [t \in Threads |-> NoArgs]
    /\ payload = [t \in Threads |-> NoPayload]
    /\ signature = [t \in Threads |-> NoSignature]
    /\ posts = [t \in Threads |-> 0]
    /\ event = NoEvent
    /\ calls = 0

----------------------------------------------------------------------------
(* The writes of the operations to Params[0] of their template *)

SetBlockNumber(p, v) == [p EXCEPT !.BlockNumber = v]

\* A variant that leaves the field alone when the call has no transactions.
SetTxsIfAny(p, txsHex) == IF Len(txsHex) = 0 THEN p ELSE [p EXCEPT !.Txs = txsHex]

SetTxs(p, txsHex) == [p EXCEPT !.Txs = txsHex]

SetBundleHash(p, bundleHash) == [p EXCEPT !.BundleHash = bundleHash]

\* A goroutine starts operation m with arguments a.
Begin(t, m, a) ==
    /\ pc[t] = "idle"
    /\ calls < MaxCalls
    /\ calls' = calls + 1
    /\ method' = [method EXCEPT ![t] = m]
    /\ args' = [args EXCEPT ![t] = a]
    /\ posts' = [posts EXCEPT ![t] = 0]
    /\ pc' = [pc EXCEPT ![t] = "write"]
    /\ event' = NoEvent
    /\ UNCHANGED <<netID, url, prvKey, publicAddr, payload, signature>>

\* The second write of an operation; req is called next.
Second(t, m) ==
    /\ UNCHANGED calls
    /\ pc[t] = "write"
    /\ method[t] = m
    /\ pc' = [pc EXCEPT ![t] = "req"]
    /\ event' = NoEvent
    /\ UNCHANGED <<netID, url, prvKey, publicAddr, method, args, payload,
                   signature, posts>>

\* SendBundle: r := RequestSend; r.Params[0].BlockNumber = ...
SendBundle(t, txs, blocks) ==
    \E txsHex \in txs, blockNumber \in blocks :
        /\ Begin(t, SendMethod, [NoArgs EXCEPT !.txsHex = txsHex,
                                              !.blockNumber = blockNumber])
        /\ templates' = [templates EXCEPT
               ![SendMethod] = SetBlockNumber(@, EncodeUint64(blockNumber))]

\* SendBundle: r.Params[0].Txs = txsHex
SendBundleTxs(t) ==
    /\ Second(t, SendMethod)
    /\ templates' = [templates EXCEPT
           ![SendMethod] = SetTxs(@, args[t].txsHex)]

\* CallBundle: r := RequestCall; r.Params[0].Txs = txsHex
CallBundle(t, txs) ==
    \E txsHex \in txs :
        /\ Begin(t, CallMethod, [NoArgs EXCEPT !.txsHex = txsHex,
                                              !.blockNumber = blockDummy])
        /\ templates' = [templates EXCEPT ![CallMethod] = SetTxs(@, txsHex)]

\* CallBundle: r.Params[0].BlockNumber = hexutil.EncodeUint64(blockDummy)
CallBundleBlock(t) ==
    /\ Second(t, CallMethod)
    /\ templates' = [templates EXCEPT
           ![CallMethod] = SetBlockNumber(@, EncodeUint64(blockDummy))]

\* GetBundleStats: r := RequestBundleStats; r.Params[0].BundleHash = ...
GetBundleStats(t, hashes, blocks) ==
    \E bundleHash \in hashes, blockNumber \in blocks :
        /\ Begin(t, StatsMethod, [NoArgs EXCEPT !.bundleHash = bundleHash,
                                               !.blockNumber = blockNumber])
        /\ templates' = [templates EXCEPT
               ![StatsMethod] = SetBundleHash(@, bundleHash)]

\* GetBundleStats: r.Params[0].BlockNumber = ...
GetBundleStatsBlock(t) ==
    /\ Second(t, StatsMethod)
    /\ templates' = [templates EXCEPT
           ![StatsMethod] = SetBlockNumber(@, EncodeUint64(args[t].blockNumber))]

----------------------------------------------------------------------------
(* req *)

\* The operation of goroutine t returns outcome o to its caller.
Return(t, reply, o) ==
    /\ event' = ReturnEvent(t, method[t], posts[t], reply, o)
    /\ pc' = [pc EXCEPT ![t] = "idle"]
    /\ method' = [method EXCEPT ![t] = ""]
    /\ args' = [args EXCEPT ![t] = NoArgs]
    /\ payload' = [payload EXCEPT ![t] = NoPayload]
    /\ signature' = [signature EXCEPT ![t] = NoSignature]
    /\ posts' = [posts EXCEPT ![t] = 0]

\* req: json.Marshal(r), which reads Params[0] through the copied slice, and
\* the resolution of the url.
ReqMarshal(t) ==
    /\ UNCHANGED calls
    /\ pc[t] = "req"
    /\ IF ResolveURL(url, netID).err
       THEN Return(t, NoReply,
                   Wrap(Failure(<<"get flashboat relay url">>, NoStatus, <<>>, "none"),
                        WrapMessage(method[t])))
       ELSE /\ payload' = [payload EXCEPT ![t] = Marshal(method[t], Template(method[t]))]
            /\ pc' = [pc EXCEPT ![t] = "sign"]
            /\ event' = NoEvent
            /\ UNCHANGED <<method, args, signature, posts>>
    /\ UNCHANGED <<netID, url, prvKey, publicAddr, templates>>

\* signPayload: the guard on the key and crypto.Sign with self.prvKey.
ReqSign(t) ==
    /\ UNCHANGED calls
    /\ pc[t] = "sign"
    /\ IF KeyNotSet(prvKey, publicAddr)
       THEN Return(t, NoReply,
                   Wrap(Failure(<<"signing flashbot request", "private key is not set">>,
                                NoStatus, <<>>, "none"),
                        WrapMessage(method[t])))
       ELSE /\ signature' = [signature EXCEPT ![t] = Sign(TextHash(payload[t]), prvKey)]
            /\ pc' = [pc EXCEPT ![t] = "post"]
            /\ event' = NoEvent
            /\ UNCHANGED <<method, args, payload, posts>>
    /\ UNCHANGED <<netID, url, prvKey, publicAddr, templates>>

\* signPayload: self.publicAddr.Hex() + ":" + signature; req: the headers
\* and mevHTTPClient.Do(req), which sends the POST.
ReqPost(t) ==
    /\ UNCHANGED calls
    /\ pc[t] = "post"
    /\ event' = PostEvent(t, method[t], args[t], ResolveURL(url, netID).url,
                          payload[t], HeaderValue(publicAddr, signature[t]))
    /\ posts' = [posts EXCEPT ![t] = @ + 1]
    /\ pc' = [pc EXCEPT ![t] = "reply"]
    /\ UNCHANGED <<netID, url, prvKey, publicAddr, templates, method, args,
                   payload, signature>>

\* req: the result of Do, the reads of the body, the status check and the
\* close; then the decoding and classification by the operation.
ReqReply(t, replies) ==
    /\ UNCHANGED calls
    /\ pc[t] = "reply"
    /\ \E reply \in replies :
          LET o == Finish(method[t], reqAfterDo(reply))
          IN  IF reqNext(o) = "idle"
              THEN Return(t, reply, o)
              ELSE /\ pc' = [pc EXCEPT ![t] = reqNext(o)]
                   /\ event' = NoEvent
                   /\ UNCHANGED <<method, args, payload, signature, posts>>
    /\ UNCHANGED <<netID, url, prvKey, publicAddr, templates>>

----------------------------------------------------------------------------
(* SetKeys *)

\* SetKeys: self.prvKey = prvKey
SetKeys(t) ==
    /\ pc[t] = "idle"
    /\ calls < MaxCalls
    /\ calls' = calls + 1
    /\ \E k \in Keys :
          /\ prvKey' = k
          /\ args' = [args EXCEPT ![t] = [NoArgs EXCEPT !.prvKey = k]]
    /\ pc' = [pc EXCEPT ![t] = "setaddr"]
    /\ event' = NoEvent
    /\ UNCHANGED <<netID, url, publicAddr, templates, method, payload,
                   signature, posts>>

\* SetKeys: self.publicAddr = &publicAddress
SetKeysAddr(t) ==
    /\ UNCHANGED calls
    /\ pc[t] = "setaddr"
    /\ publicAddr' = PubkeyToAddress(args[t].prvKey)
    /\ args' = [args EXCEPT ![t] = NoArgs]
    /\ pc' = [pc EXCEPT ![t] = "idle"]
    /\ event' = NoEvent
    /\ UNCHANGED <<netID, url, prvKey, templates, method, payload,
                   signature, posts>>

----------------------------------------------------------------------------
(* Specifications *)

\* Goroutines that call one client in any interleaving.
Next ==
    \E t \in Threads :
        \/ SendBundle(t, TxLists, BlockNumbers)
        \/ SendBundleTxs(t)
        \/ CallBundle(t, TxLists)
        \/ CallBundleBlock(t)
        \/ GetBundleStats(t, BundleHashes, BlockNumbers)
        \/ GetBundleStatsBlock(t)
        \/ ReqMarshal(t)
        \/ ReqSign(t)
        \/ ReqPost(t)
        \/ ReqReply(t, ReplyKinds)
        \/ SetKeys(t)
        \/ SetKeysAddr(t)

Spec == Init /\ [][Next]_vars

\* No other goroutine is inside an operation.
Alone(t) == \A u \in Threads \ {t} : pc[u] = "idle"

\* Calls that do not overlap: an operation starts when no other is running.
NextSeq ==
    \E t \in Threads :
        \/ (Alone(t) /\ SendBundle(t, TxLists, BlockNumbers))
        \/ SendBundleTxs(t)
        \/ (Alone(t) /\ CallBundle(t, TxLists))
        \/ CallBundleBlock(t)
        \/ (Alone(t) /\ GetBundleStats(t, BundleHashes, BlockNumbers))
        \/ GetBundleStatsBlock(t)
        \/ ReqMarshal(t)
        \/ ReqSign(t)
        \/ ReqPost(t)
        \/ ReqReply(t, Replies)
        \/ (Alone(t) /\ SetKeys(t))
        \/ SetKeysAddr(t)

SpecSeq == Init /\ [][NextSeq]_vars

TypeOK ==
    /\ pc \in [Threads -> {"idle", "write", "req", "sign", "post", "reply", "setaddr"}]
    /\ posts \in [Threads -> 0..1]
    /\ calls \in 0..MaxCalls
    /\ event.kind \in {"none", "post", "return"}

----------------------------------------------------------------------------
(* Properties *)

\* The single Params object of the body of a POST.
PostedParams == event.body.params[1]

\* The value of key k in a marshalled object, none if the key is omitted.
Value(obj, k, none) == IF k \in DOMAIN obj THEN obj[k] ELSE none

\* The operation of the last return event and what the relay answered.
Returned == event.kind = "return"
Answered == Returned /\ event.posts = 1 /\ ~event.reply.netErr
Failed == event.outcome.err /= <<>>

\* The reply of the last return event reached parseResp and was decoded.
Decoded ==
    /\ Answered
    /\ event.method \in {SendMethod, CallMethod}
    /\ ~event.reply.readErr
    /\ event.reply.status \div 100 = 2
    /\ ~event.reply.closeErr
    /\ event.reply.body.valid

DecodedResults == event.reply.body.result.Results
DecodedCode == event.reply.body.error.Code

\* C1: when calls run concurrently, the body each call POSTs carries the
\* arguments of that same call (its txs, its block number, its bundle hash)
\* and never a value of another call.
C1_BodyCarriesOwnArguments ==
    event.kind = "post" =>
        /\ event.method = SendMethod =>
              /\ Value(PostedParams, "txs", <<>>) = event.args.txsHex
              /\ Value(PostedParams, "blockNumber", "") = EncodeUint64(event.args.blockNumber)
        /\ event.method = CallMethod =>
              Value(PostedParams, "txs", <<>>) = event.args.txsHex
        /\ event.method = StatsMethod =>
              /\ Value(PostedParams, "bundleHash", "") = event.args.bundleHash
              /\ Value(PostedParams, "blockNumber", "") = EncodeUint64(event.args.blockNumber)

\* The hexadecimal text of the block numbers of the model.
HexText(blockNumber) ==
    CASE blockNumber = U64(0, 0) -> "0x0"
      [] blockNumber = U64(0, 100) -> "0x64"

\* The Params object that a call of m with arguments a is to serialize.
ExpectedParams(m, a) ==
    CASE m = SendMethod ->
            IF a.txsHex = <<>>
            THEN [blockNumber |-> HexText(a.blockNumber)]
            ELSE [txs |-> a.txsHex, blockNumber |-> HexText(a.blockNumber)]
      [] m = CallMethod ->
            IF a.txsHex = <<>>
            THEN [blockNumber |-> "0x5af3107a4000", stateBlockNumber |-> "latest"]
            ELSE [txs |-> a.txsHex, blockNumber |-> "0x5af3107a4000",
                  stateBlockNumber |-> "latest"]
      [] m = StatsMethod ->
            IF a.bundleHash = ""
            THEN [blockNumber |-> HexText(a.blockNumber)]
            ELSE [bundleHash |-> a.bundleHash, blockNumber |-> HexText(a.blockNumber)]

\* C2: in a sequence of calls that do not overlap, the request each call
\* POSTs is determined by its method and arguments alone: only the fields of
\* its method, the block number in hexadecimal, empty fields omitted, and
\* nothing an earlier call wrote.
C2_BodyDependsOnCallOnly ==
    event.kind = "post" =>
        event.body = [jsonrpc |-> "2.0", id |-> 1, method |-> event.method,
                      params |-> <<ExpectedParams(event.method, event.args)>>]

\* A stats call without a bundle hash is posted after an earlier submit
\* call has left its transactions in the submit template.
C2_Witness ==
    /\ event.kind = "post"
    /\ event.method = StatsMethod
    /\ event.args.bundleHash = ""
    /\ templates[SendMethod].Txs /= <<>>

\* C3: parseResp follows the decision order: a non-zero error code fails the
\* call whatever the results are; else a non-empty error of the first result
\* fails it; otherwise the call succeeds with the whole decoded response.
\* No result but the first is looked at.
C3_DecisionOrder ==
    Decoded =>
        /\ DecodedCode /= 0 => Failed
        /\ (/\ DecodedCode = 0
            /\ Len(DecodedResults) > 0
            /\ DecodedResults[1].Error /= "") => Failed
        /\ (/\ DecodedCode = 0
            /\ (Len(DecodedResults) = 0 \/ DecodedResults[1].Error = ""))
              => /\ ~Failed
                 /\ event.outcome.ok
                 /\ event.outcome.rr = [Error |-> event.reply.body.error,
                                        Result |-> event.reply.body.result]

\* A call succeeds although a later result carries an error.
C3_Witness ==
    /\ Decoded
    /\ DecodedCode = 0
    /\ Len(DecodedResults) = 2
    /\ DecodedResults[1].Error = ""
    /\ DecodedResults[2].Error /= ""
    /\ event.outcome.ok

\* Some transaction result, at any position, reports an error or a revert.
SomeResultFailed ==
    \E i \in 1..Len(DecodedResults) :
        DecodedResults[i].Error /= "" \/ DecodedResults[i].Revert /= ""

\* C4 as stated: a submit or simulate call with a 2xx status, a decodable
\* body and error code 0 fails whenever any transaction result, at any
\* position, reports an error or a revert.
C4_AnyResultFails ==
    (Decoded /\ DecodedCode = 0 /\ SomeResultFailed) => (Failed /\ ~event.outcome.ok)

\* C4 as amended: such a call fails exactly when the first transaction
\* result reports a non-empty error.
C4_FirstResultFails ==
    (Decoded /\ DecodedCode = 0) =>
        ((Failed /\ ~event.outcome.ok)
            <=> (Len(DecodedResults) > 0 /\ DecodedResults[1].Error /= ""))

\* A call fails on the error of its first result.
C4_Witness ==
    /\ Decoded
    /\ DecodedCode = 0
    /\ Len(DecodedResults) > 0
    /\ DecodedResults[1].Error /= ""
    /\ Failed

\* C5: without a configured url, no operation of a client whose network id
\* is neither 1 nor 5 issues an HTTP request and every one returns an error;
\* with network id 1 or 5 a request goes to the default relay of that id.
C5_DefaultRelay ==
    url = "" =>
        /\ netID \notin {1, 5} =>
              /\ event.kind /= "post"
              /\ \A t \in Threads : posts[t] = 0
              /\ Returned => (Failed /\ event.posts = 0)
        /\ (netID = 1 /\ event.kind = "post") =>
              event.url = "https://relay.flashbots.net"
        /\ (netID = 5 /\ event.kind = "post") =>
              event.url = "https://relay-goerli.flashbots.net"

\* An operation on an unsupported network returns.
C5_Witness == url = "" /\ netID = 3 /\ Returned

\* C6: a client without a private key issues no HTTP request and every
\* operation on it returns an error; every request that is issued carries a
\* signature made over the payload bytes of its own body.
C6_SigningIsMandatory ==
    /\ prvKey = NoKey =>
          /\ event.kind /= "post"
          /\ \A t \in Threads : posts[t] = 0
          /\ Returned => (Failed /\ event.posts = 0)
    /\ event.kind = "post" =>
          /\ event.header[3].signer /= NoKey
          /\ event.header[3].digest = TextHash(event.body)

\* An operation on a client without a key returns from signPayload.
C6_Witness ==
    /\ Returned
    /\ prvKey = NoKey
    /\ event.outcome.err[Len(event.outcome.err)] = "private key is not set"

\* C7: a call issues at most one HTTP POST; after a failure of any kind it
\* returns the error and does not send again.
C7_AtMostOnePost ==
    /\ \A t \in Threads : posts[t] <= 1
    /\ \A t \in Threads : pc[t] \in {"idle", "write", "req", "sign", "post", "setaddr"}
                             => posts[t] = 0
    /\ Returned => event.posts <= 1

\* A call returns an error after its one POST.
C7_Witness == Returned /\ event.posts = 1 /\ Failed

\* C8: when the relay answers with a status outside 2xx the operation
\* returns an error that carries the status, with the body when the body
\* could be read and without it when the read failed.
C8_ErrorCarriesStatus ==
    (Answered /\ event.reply.status \div 100 /= 2) =>
        /\ Failed
        /\ event.outcome.status = event.reply.status
        /\ ~event.reply.readErr => event.outcome.body = <<event.reply.body.text>>

\* C9: a signature header is <address>:<signature> with one separator and
\* its address is the address of the key that made the signature, also when
\* SetKeys runs between calls or during a call of another goroutine.
C9_AddressMatchesSigner ==
    event.kind = "post" =>
        /\ Len(event.header) = 3
        /\ event.header[2] = ":"
        /\ event.header[1] = PubkeyToAddress(event.header[3].signer)

\* C10: the body of every response that req obtains is closed before req
\* returns, on every path.
C10_BodyClosed ==
    Answered => event.outcome.closed = "closed"

====
